---- MODULE Spec2Model ----
(***************************************************************************)
(* Model of scripts/keyboard_teleop.py: the key handlers keydown / keyup   *)
(* (Tk UI thread), the rospy timer callback publish_cb (timer thread),     *)
(* shutdown (quit key or SIGINT handler) and the startup order of main.    *)
(* Each handler body runs under state_lock, so in Spec a handler is one    *)
(* atomic step; SpecFine runs the handlers statement by statement with the *)
(* lock.  Speeds and angles are in tenths (2.0 -> 20).                     *)
(***************************************************************************)
EXTENDS Integers, Sequences, FiniteSets, TLC

VARIABLES
    state,               \* the four flags, state[0..3]
    control,             \* the active flag
    state_pub,           \* "None" or "pub"
    root,                \* "None", "alive" (Tk window) or "destroyed"
    max_velocity,        \* Undefined until main reads ~speed
    max_steering_angle,  \* Undefined until main reads ~max_steering_angle
    pc,                  \* position of the main thread in __main__ / main
    timer_started,       \* rospy.Timer(publish_cb) has been created
    rospy_shutdown,      \* rospy.signal_shutdown has been called
    shutdown_calls,      \* number of calls of shutdown() so far
    shutdown_raised,     \* some call of shutdown() raised
    exit_status,         \* "running", "clean" or "error"
    held,                \* directional keys pressed and not yet released
    hist,                \* the three most recent directional-key events, oldest first
    step,                \* the most recent step and the messages it published
    state_lock,          \* "free", or the thread inside "with state_lock": "ui" / "timer"
    ui_pc,               \* position of the UI thread inside a key handler
    ui_ev,               \* the key event the UI thread is handling
    tick_pc,             \* position of the timer thread inside publish_cb
    seen                 \* what the running publish_cb has read so far

vars == <<state, control, state_pub, root, max_velocity, max_steering_angle,
          pc, timer_started, rospy_shutdown, shutdown_calls, shutdown_raised,
          exit_status, held, hist, step, state_lock, ui_pc, ui_ev, tick_pc, seen>>

keyvars == <<state, control>>

finevars == <<state_lock, ui_pc, ui_ev, tick_pc, seen>>

ghostvars == <<held, hist, step>>

lifevars == <<state_pub, root, max_velocity, max_steering_angle, pc,
              timer_started, rospy_shutdown, shutdown_raised, exit_status>>

----------------------------------------------------------------------------
(* Key mappings and inputs *)

UP == "w"
LEFT == "a"
DOWN == "s"
RIGHT == "d"
QUIT == "q"
OtherKey == "x"

DirKeys == {UP, LEFT, DOWN, RIGHT}

Keys == DirKeys \cup {QUIT, OtherKey}

\* A Tk key event: keysym names the key, char is the character it produces
\* (empty when a modifier such as Control is held).
Events == {[char |-> k, keysym |-> k] : k \in Keys} \cup {[char |-> "", keysym |-> k] : k \in Keys}

DefaultSpeed == 20

DefaultSteer == 6

Undefined == 0 - 1

SpeedChoices == {0, DefaultSpeed}

SteerChoices == {DefaultSteer}

MaxShutdownCalls == 2

----------------------------------------------------------------------------
(* Pure parts of the handlers *)

AllFalse == [i \in 0..3 |-> FALSE]

keyeq(e, c) == e.char = c \/ e.keysym = c

\* sum(state) >= 0: always true
sum_positive_nonneg(st) == Cardinality({i \in 0..3 : st[i]}) >= 0

\* sum(state[:3]) > 0: the last flag left out of the sum
sum_positive_short(st) == Cardinality({i \in 0..2 : st[i]}) > 0

\* sum(state) > 0
sum_positive(st) == Cardinality({i \in 0..3 : st[i]}) > 0

\* keyup clearing the flag that keydown sets for the key (a and d crossed)
keyup_flags_crossed(st, e) ==
    IF keyeq(e, UP) THEN [st EXCEPT ![0] = FALSE]
    ELSE IF keyeq(e, LEFT) THEN [st EXCEPT ![3] = FALSE]
    ELSE IF keyeq(e, DOWN) THEN [st EXCEPT ![2] = FALSE]
    ELSE IF keyeq(e, RIGHT) THEN [st EXCEPT ![1] = FALSE]
    ELSE st

\* the if/elif chain of keyup
keyup_flags(st, e) ==
    IF keyeq(e, UP) THEN [st EXCEPT ![0] = FALSE]
    ELSE IF keyeq(e, LEFT) THEN [st EXCEPT ![1] = FALSE]
    ELSE IF keyeq(e, DOWN) THEN [st EXCEPT ![2] = FALSE]
    ELSE IF keyeq(e, RIGHT) THEN [st EXCEPT ![3] = FALSE]
    ELSE st

\* keydown that sets the pressed key's flag and forgets to clear the opposite one
keydown_flags_no_clear(st, e) ==
    IF keyeq(e, QUIT) THEN st
    ELSE IF keyeq(e, UP) THEN [st EXCEPT ![0] = TRUE]
    ELSE IF keyeq(e, LEFT) THEN [st EXCEPT ![3] = TRUE]
    ELSE IF keyeq(e, DOWN) THEN [st EXCEPT ![2] = TRUE]
    ELSE IF keyeq(e, RIGHT) THEN [st EXCEPT ![1] = TRUE]
    ELSE st

\* keydown with LEFT and RIGHT setting their own flags (not crossed)
keydown_flags_straight(st, e) ==
    IF keyeq(e, QUIT) THEN st
    ELSE IF keyeq(e, UP) THEN [st EXCEPT ![0] = TRUE, ![2] = FALSE]
    ELSE IF keyeq(e, LEFT) THEN [st EXCEPT ![1] = TRUE, ![3] = FALSE]
    ELSE IF keyeq(e, DOWN) THEN [st EXCEPT ![0] = FALSE, ![2] = TRUE]
    ELSE IF keyeq(e, RIGHT) THEN [st EXCEPT ![1] = FALSE, ![3] = TRUE]
    ELSE st

\* keydown toggling the pressed key's flag instead of setting it
keydown_flags_toggle(st, e) ==
    IF keyeq(e, QUIT) THEN st
    ELSE IF keyeq(e, UP) THEN [st EXCEPT ![0] = ~st[0], ![2] = FALSE]
    ELSE IF keyeq(e, LEFT) THEN [st EXCEPT ![1] = FALSE, ![3] = ~st[3]]
    ELSE IF keyeq(e, DOWN) THEN [st EXCEPT ![0] = FALSE, ![2] = ~st[2]]
    ELSE IF keyeq(e, RIGHT) THEN [st EXCEPT ![1] = ~st[1], ![3] = FALSE]
    ELSE st

\* keydown whose QUIT branch also clears the four flags
keydown_flags_quit_clears(st, e) ==
    IF keyeq(e, QUIT) THEN [i \in 0..3 |-> FALSE]
    ELSE IF keyeq(e, UP) THEN [st EXCEPT ![0] = TRUE, ![2] = FALSE]
    ELSE IF keyeq(e, LEFT) THEN [st EXCEPT ![1] = FALSE, ![3] = TRUE]
    ELSE IF keyeq(e, DOWN) THEN [st EXCEPT ![0] = FALSE, ![2] = TRUE]
    ELSE IF keyeq(e, RIGHT) THEN [st EXCEPT ![1] = TRUE, ![3] = FALSE]
    ELSE st

\* the if/elif chain of keydown (the QUIT branch changes no flag)
keydown_flags(st, e) ==
    IF keyeq(e, QUIT) THEN st
    ELSE IF keyeq(e, UP) THEN [st EXCEPT ![0] = TRUE, ![2] = FALSE]
    ELSE IF keyeq(e, LEFT) THEN [st EXCEPT ![1] = FALSE, ![3] = TRUE]
    ELSE IF keyeq(e, DOWN) THEN [st EXCEPT ![0] = FALSE, ![2] = TRUE]
    ELSE IF keyeq(e, RIGHT) THEN [st EXCEPT ![1] = TRUE, ![3] = FALSE]
    ELSE st

\* publish_cb testing the backward and right flags first
ack_drive_reversed(st, mv, ms) ==
    [speed |-> IF st[2] THEN 0 - mv ELSE IF st[0] THEN mv ELSE 0,
     steering_angle |-> IF st[3] THEN 0 - ms ELSE IF st[1] THEN ms ELSE 0]

\* the AckermannDriveStamped built by publish_cb
ack_drive(st, mv, ms) ==
    [speed |-> IF st[0] THEN mv ELSE IF st[2] THEN 0 - mv ELSE 0,
     steering_angle |-> IF st[1] THEN ms ELSE IF st[3] THEN 0 - ms ELSE 0]

\* publish_cb without the "state_pub is not None" test
publish_msgs_unguarded(ctl, st, pub, mv, ms) ==
    IF ~ctl THEN << >> ELSE << ack_drive(st, mv, ms) >>

\* publish_cb without the early return on "not control"
publish_msgs_always(ctl, st, pub, mv, ms) ==
    IF pub # "None" THEN << ack_drive(st, mv, ms) >> ELSE << >>

\* the messages one call of publish_cb hands to state_pub.publish
publish_msgs(ctl, st, pub, mv, ms) ==
    IF ~ctl THEN << >>
    ELSE IF pub # "None" THEN << ack_drive(st, mv, ms) >>
    ELSE << >>

\* shutdown(): root.destroy() on a window that is already destroyed raises
\* TclError; rospy.signal_shutdown is not reached then.
shutdown_raises(r) == r = "destroyed"

shutdown_root(r) == IF r = "alive" THEN "destroyed" ELSE r

----------------------------------------------------------------------------
(* History kept for stating the properties *)

NoEvent == [op |-> "none", key |-> "", clear |-> FALSE]

Push(h, x) == <<h[2], h[3], x>>

KeyEvent(o, e) == [op |-> o, key |-> e.keysym, clear |-> ~sum_positive(state)]

Step(o, k, m) == [op |-> o, key |-> k, msgs |-> m]

NoUiEvent == [kind |-> "none", e |-> [char |-> "", keysym |-> ""]]

NothingSeen == [ctl |-> FALSE, f0 |-> FALSE, f1 |-> FALSE, f2 |-> FALSE, f3 |-> FALSE]

----------------------------------------------------------------------------
Init ==
    /\ state = AllFalse
    /\ control = FALSE
    /\ state_pub = "None"
    /\ root = "None"
    /\ max_velocity = Undefined
    /\ max_steering_angle = Undefined
    /\ pc = "main"
    /\ timer_started = FALSE
    /\ rospy_shutdown = FALSE
    /\ shutdown_calls = 0
    /\ shutdown_raised = FALSE
    /\ exit_status = "running"
    /\ held = {}
    /\ hist = <<NoEvent, NoEvent, NoEvent>>
    /\ step = Step("init", "", << >>)
    /\ state_lock = "free"
    /\ ui_pc = "idle"
    /\ ui_ev = NoUiEvent
    /\ tick_pc = "idle"
    /\ seen = NothingSeen

----------------------------------------------------------------------------
(* main *)

\* rospy.init_node and the two get_param reads
main_params ==
    /\ pc = "main"
    /\ \E v \in SpeedChoices : max_velocity' = v
    /\ \E a \in SteerChoices : max_steering_angle' = a
    /\ pc' = "publisher"
    /\ UNCHANGED finevars
    /\ step' = Step("main", "", << >>)
    /\ UNCHANGED <<keyvars, state_pub, root, timer_started, rospy_shutdown,
                   shutdown_calls, shutdown_raised, exit_status, held, hist>>

\* state_pub = rospy.Publisher(...)
main_publisher ==
    /\ pc = "publisher"
    /\ state_pub' = "pub"
    /\ pc' = "timer"
    /\ UNCHANGED finevars
    /\ step' = Step("main", "", << >>)
    /\ UNCHANGED <<keyvars, root, max_velocity, max_steering_angle, timer_started,
                   rospy_shutdown, shutdown_calls, shutdown_raised, exit_status,
                   held, hist>>

\* rospy.Timer(rospy.Duration(0.1), publish_cb)
main_timer ==
    /\ pc = "timer"
    /\ timer_started' = TRUE
    /\ pc' = "tk"
    /\ UNCHANGED finevars
    /\ step' = Step("main", "", << >>)
    /\ UNCHANGED <<keyvars, state_pub, root, max_velocity, max_steering_angle,
                   rospy_shutdown, shutdown_calls, shutdown_raised, exit_status,
                   held, hist>>

\* root = Tk()
main_tk ==
    /\ pc = "tk"
    /\ root' = "alive"
    /\ pc' = "bind"
    /\ UNCHANGED finevars
    /\ step' = Step("main", "", << >>)
    /\ UNCHANGED <<keyvars, state_pub, max_velocity, max_steering_angle,
                   timer_started, rospy_shutdown, shutdown_calls, shutdown_raised,
                   exit_status, held, hist>>

\* Frame(root), bind, pack, focus_set, Label: on a destroyed application the
\* first Tk call raises TclError and main dies; otherwise mainloop is entered.
main_bind ==
    /\ pc = "bind"
    /\ IF root = "destroyed"
          THEN pc' = "done" /\ exit_status' = "error"
          ELSE pc' = "mainloop" /\ UNCHANGED exit_status
    /\ UNCHANGED finevars
    /\ step' = Step("main", "", << >>)
    /\ UNCHANGED <<keyvars, state_pub, root, max_velocity, max_steering_angle,
                   timer_started, rospy_shutdown, shutdown_calls, shutdown_raised,
                   held, hist>>

\* root.mainloop() returns once the window is destroyed; main returns and
\* the process exits.
mainloop_exit ==
    /\ pc = "mainloop"
    /\ root = "destroyed"
    /\ ui_pc = "idle"
    /\ pc' = "done"
    /\ exit_status' = "clean"
    /\ UNCHANGED finevars
    /\ step' = Step("main", "", << >>)
    /\ UNCHANGED <<keyvars, state_pub, root, max_velocity, max_steering_angle,
                   timer_started, rospy_shutdown, shutdown_calls, shutdown_raised,
                   held, hist>>

main == main_params \/ main_publisher \/ main_timer \/ main_tk \/ main_bind \/ mainloop_exit

----------------------------------------------------------------------------
(* Handlers *)

\* A key event is delivered only while mainloop runs on a live window.
Delivering == pc = "mainloop" /\ root = "alive"

keyup(e) ==
    /\ Delivering
    /\ state' = keyup_flags(state, e)
    /\ control' = sum_positive(state')
    /\ held' = held \ {e.keysym}
    /\ hist' = IF e.keysym \in DirKeys THEN Push(hist, KeyEvent("keyup", e)) ELSE hist
    /\ UNCHANGED finevars
    /\ step' = Step("keyup", e.keysym, << >>)
    /\ UNCHANGED <<lifevars, shutdown_calls>>

keydown(e) ==
    /\ Delivering
    /\ IF keyeq(e, QUIT)
          THEN /\ shutdown_calls' = shutdown_calls + 1
               /\ root' = shutdown_root(root)
               /\ rospy_shutdown' = TRUE
          ELSE UNCHANGED <<shutdown_calls, root, rospy_shutdown>>
    /\ state' = keydown_flags(state, e)
    /\ control' = sum_positive(state')
    /\ held' = IF e.keysym \in DirKeys THEN held \cup {e.keysym} ELSE held
    /\ hist' = IF e.keysym \in DirKeys THEN Push(hist, KeyEvent("keydown", e)) ELSE hist
    /\ UNCHANGED finevars
    /\ step' = Step("keydown", e.keysym, << >>)
    /\ UNCHANGED <<state_pub, max_velocity, max_steering_angle, pc, timer_started,
                   shutdown_raised, exit_status>>

\* publish_cb that clears the flags once it has published them
publish_cb_resets ==
    /\ timer_started
    /\ ~rospy_shutdown
    /\ pc # "done"
    /\ UNCHANGED finevars
    /\ step' = Step("tick", "", publish_msgs(control, state, state_pub,
                                             max_velocity, max_steering_angle))
    /\ state' = [i \in 0..3 |-> FALSE]
    /\ control' = FALSE
    /\ UNCHANGED <<lifevars, shutdown_calls, held, hist>>

\* The timer thread runs publish_cb every 0.1 s until rospy is shut down.
publish_cb ==
    /\ timer_started
    /\ ~rospy_shutdown
    /\ pc # "done"
    /\ UNCHANGED finevars
    /\ step' = Step("tick", "", publish_msgs(control, state, state_pub,
                                             max_velocity, max_steering_angle))
    /\ UNCHANGED <<keyvars, lifevars, shutdown_calls, held, hist>>

\* SIGINT: the handler installed in __main__ runs shutdown() on the main
\* thread.  An exception it raises propagates into main and ends the process.
sigint ==
    /\ pc # "done"
    /\ ui_pc = "idle"
    /\ shutdown_calls < MaxShutdownCalls
    /\ shutdown_calls' = shutdown_calls + 1
    /\ IF shutdown_raises(root)
          THEN /\ shutdown_raised' = TRUE
               /\ pc' = "done"
               /\ exit_status' = "error"
               /\ UNCHANGED <<root, rospy_shutdown>>
          ELSE /\ root' = shutdown_root(root)
               /\ rospy_shutdown' = TRUE
               /\ UNCHANGED <<shutdown_raised, pc, exit_status>>
    /\ UNCHANGED finevars
    /\ step' = Step("sigint", "", << >>)
    /\ UNCHANGED <<keyvars, state_pub, max_velocity, max_steering_angle,
                   timer_started, held, hist>>

----------------------------------------------------------------------------
Next ==
    \/ main_params
    \/ main_publisher
    \/ main_timer
    \/ main_tk
    \/ main_bind
    \/ mainloop_exit
    \/ \E e \in Events : keydown(e)
    \/ \E e \in Events : keyup(e)
    \/ publish_cb
    \/ sigint

Spec == Init /\ [][Next]_vars

\* The main thread keeps running: each statement of main, and the return of
\* mainloop, is eventually executed.  Key presses and signals are up to the
\* user and carry no fairness.
FairSpec == Spec /\ WF_vars(main)

----------------------------------------------------------------------------
(* The handlers statement by statement, with state_lock.  The UI thread     *)
(* runs keydown / keyup, the timer thread runs publish_cb; SIGINT is        *)
(* handled on the UI (main) thread between callbacks and at the entry of a  *)
(* callback, before the handler has taken the lock.                         *)

\* a lock that never makes anyone wait
lock_available_always(l) == TRUE

\* state_lock can be acquired
lock_available(l) == l = "free"

\* publish_cb returning on "not control" without giving the lock back
lock_after_return_kept == "timer"

\* "return" inside "with state_lock" releases the lock
lock_after_return == "free"

DirEvent(e) == keyeq(e, UP) \/ keyeq(e, LEFT) \/ keyeq(e, DOWN) \/ keyeq(e, RIGHT)

\* first statement of the branch keydown takes (QUIT is handled apart)
keydown_first(st, e) ==
    IF keyeq(e, QUIT) THEN st
    ELSE IF keyeq(e, UP) THEN [st EXCEPT ![0] = TRUE]
    ELSE IF keyeq(e, LEFT) THEN [st EXCEPT ![1] = FALSE]
    ELSE IF keyeq(e, DOWN) THEN [st EXCEPT ![0] = FALSE]
    ELSE IF keyeq(e, RIGHT) THEN [st EXCEPT ![1] = TRUE]
    ELSE st

\* second statement of the branch keydown takes
keydown_second(st, e) ==
    IF keyeq(e, QUIT) THEN st
    ELSE IF keyeq(e, UP) THEN [st EXCEPT ![2] = FALSE]
    ELSE IF keyeq(e, LEFT) THEN [st EXCEPT ![3] = TRUE]
    ELSE IF keyeq(e, DOWN) THEN [st EXCEPT ![2] = TRUE]
    ELSE IF keyeq(e, RIGHT) THEN [st EXCEPT ![3] = FALSE]
    ELSE st

SeenFlags == [i \in 0..3 |-> IF i = 0 THEN seen.f0 ELSE IF i = 1 THEN seen.f1
                             ELSE IF i = 2 THEN seen.f2 ELSE seen.f3]

\* Tk calls the bound handler for a key event
ui_dispatch ==
    /\ Delivering
    /\ ui_pc = "idle"
    /\ \E k \in {"keydown", "keyup"}, e \in Events : ui_ev' = [kind |-> k, e |-> e]
    /\ ui_pc' = "entry"
    /\ UNCHANGED <<keyvars, lifevars, shutdown_calls, ghostvars, state_lock, tick_pc, seen>>

\* with state_lock:
ui_acquire ==
    /\ ui_pc = "entry"
    /\ lock_available(state_lock)
    /\ state_lock' = "ui"
    /\ ui_pc' = "branch"
    /\ UNCHANGED <<keyvars, lifevars, shutdown_calls, ghostvars, ui_ev, tick_pc, seen>>

\* the if/elif chain up to the first statement of the branch taken; the QUIT
\* branch of keydown calls shutdown(), which may raise
ui_branch ==
    /\ ui_pc = "branch"
    /\ IF ui_ev.kind = "keydown" /\ keyeq(ui_ev.e, QUIT)
          THEN /\ shutdown_calls' = shutdown_calls + 1
               /\ IF shutdown_raises(root)
                     THEN /\ shutdown_raised' = TRUE
                          /\ ui_pc' = "unwind"
                          /\ UNCHANGED <<root, rospy_shutdown>>
                     ELSE /\ root' = shutdown_root(root)
                          /\ rospy_shutdown' = TRUE
                          /\ ui_pc' = "control"
                          /\ UNCHANGED shutdown_raised
               /\ UNCHANGED state
          ELSE /\ IF ui_ev.kind = "keydown"
                     THEN /\ state' = keydown_first(state, ui_ev.e)
                          /\ ui_pc' = IF DirEvent(ui_ev.e) THEN "second" ELSE "control"
                     ELSE /\ state' = keyup_flags(state, ui_ev.e)
                          /\ ui_pc' = "control"
               /\ UNCHANGED <<shutdown_calls, shutdown_raised, root, rospy_shutdown>>
    /\ UNCHANGED <<control, state_pub, max_velocity, max_steering_angle, pc,
                   timer_started, exit_status, ghostvars, state_lock, ui_ev, tick_pc, seen>>

\* the second statement of a directional branch of keydown
ui_second ==
    /\ ui_pc = "second"
    /\ state' = keydown_second(state, ui_ev.e)
    /\ ui_pc' = "control"
    /\ UNCHANGED <<control, lifevars, shutdown_calls, ghostvars, state_lock, ui_ev, tick_pc, seen>>

\* control = sum(state) > 0
ui_control ==
    /\ ui_pc = "control"
    /\ control' = sum_positive(state)
    /\ ui_pc' = "release"
    /\ UNCHANGED <<state, lifevars, shutdown_calls, ghostvars, state_lock, ui_ev, tick_pc, seen>>

\* leaving "with state_lock" normally
ui_release ==
    /\ ui_pc = "release"
    /\ state_lock' = "free"
    /\ ui_pc' = "idle"
    /\ UNCHANGED <<keyvars, lifevars, shutdown_calls, ghostvars, ui_ev, tick_pc, seen>>

\* leaving "with state_lock" by the exception of shutdown(): the lock is
\* released, line 70 is skipped, Tk reports the exception
ui_unwind ==
    /\ ui_pc = "unwind"
    /\ state_lock' = "free"
    /\ ui_pc' = "idle"
    /\ UNCHANGED <<keyvars, lifevars, shutdown_calls, ghostvars, ui_ev, tick_pc, seen>>

ui_handler == ui_acquire \/ ui_branch \/ ui_second \/ ui_control \/ ui_release \/ ui_unwind

\* SIGINT handled after Tk has dispatched a key event and before the handler
\* takes the lock.  An exception of shutdown() ends the callback.
sigint_in_callback ==
    /\ pc # "done"
    /\ ui_pc = "entry"
    /\ shutdown_calls < MaxShutdownCalls
    /\ shutdown_calls' = shutdown_calls + 1
    /\ IF shutdown_raises(root)
          THEN /\ shutdown_raised' = TRUE
               /\ ui_pc' = "idle"
               /\ UNCHANGED <<root, rospy_shutdown>>
          ELSE /\ root' = shutdown_root(root)
               /\ rospy_shutdown' = TRUE
               /\ UNCHANGED <<shutdown_raised, ui_pc>>
    /\ UNCHANGED <<keyvars, state_pub, max_velocity, max_steering_angle, pc,
                   timer_started, exit_status, ghostvars, state_lock, ui_ev, tick_pc, seen>>

\* the timer fires: with state_lock:
tick_acquire ==
    /\ timer_started
    /\ ~rospy_shutdown
    /\ pc # "done"
    /\ tick_pc = "idle"
    /\ lock_available(state_lock)
    /\ state_lock' = "timer"
    /\ tick_pc' = "check"
    /\ seen' = NothingSeen
    /\ UNCHANGED <<keyvars, lifevars, shutdown_calls, ghostvars, ui_pc, ui_ev>>

\* if not control: return
tick_check ==
    /\ tick_pc = "check"
    /\ pc # "done"
    /\ seen' = [seen EXCEPT !.ctl = control]
    /\ IF ~control
          THEN state_lock' = lock_after_return /\ tick_pc' = "idle"
          ELSE tick_pc' = "speed" /\ UNCHANGED state_lock
    /\ UNCHANGED <<keyvars, lifevars, shutdown_calls, ghostvars, ui_pc, ui_ev>>

\* if state[0]: ... elif state[2]: ...
tick_speed ==
    /\ tick_pc = "speed"
    /\ pc # "done"
    /\ seen' = [seen EXCEPT !.f0 = state[0], !.f2 = state[2]]
    /\ tick_pc' = "steer"
    /\ UNCHANGED <<keyvars, lifevars, shutdown_calls, ghostvars, state_lock, ui_pc, ui_ev>>

\* if state[1]: ... elif state[3]: ...
tick_steer ==
    /\ tick_pc = "steer"
    /\ pc # "done"
    /\ seen' = [seen EXCEPT !.f1 = state[1], !.f3 = state[3]]
    /\ tick_pc' = "publish"
    /\ UNCHANGED <<keyvars, lifevars, shutdown_calls, ghostvars, state_lock, ui_pc, ui_ev>>

\* if state_pub is not None: state_pub.publish(ack); the with block ends
tick_publish ==
    /\ tick_pc = "publish"
    /\ pc # "done"
    /\ step' = Step("tick", "", publish_msgs(seen.ctl, SeenFlags, state_pub,
                                             max_velocity, max_steering_angle))
    /\ state_lock' = "free"
    /\ tick_pc' = "idle"
    /\ UNCHANGED <<keyvars, lifevars, shutdown_calls, held, hist, ui_pc, ui_ev, seen>>

tick_body == tick_check \/ tick_speed \/ tick_steer \/ tick_publish

NextFine ==
    \/ main_params
    \/ main_publisher
    \/ main_timer
    \/ main_tk
    \/ main_bind
    \/ mainloop_exit
    \/ sigint
    \/ sigint_in_callback
    \/ ui_dispatch
    \/ ui_acquire
    \/ ui_branch
    \/ ui_second
    \/ ui_control
    \/ ui_release
    \/ ui_unwind
    \/ tick_acquire
    \/ tick_check
    \/ tick_speed
    \/ tick_steer
    \/ tick_publish

SpecFine == Init /\ [][NextFine]_vars

\* Every thread keeps running: a thread that can take its next step
\* eventually takes it.  The arrival of key events, timer ticks and signals
\* carries no fairness.
FairFine == SpecFine /\ WF_vars(main) /\ WF_vars(ui_handler) /\ WF_vars(tick_body)

----------------------------------------------------------------------------
(* publish_cb as a function of the globals it reads: every combination of   *)
(* flags, with control as the handlers leave it.                            *)

InitTick ==
    /\ state \in [0..3 -> BOOLEAN]
    /\ control = sum_positive(state)
    /\ state_pub \in {"None", "pub"}
    /\ root = "alive"
    /\ max_velocity \in SpeedChoices
    /\ max_steering_angle \in SteerChoices
    /\ pc = "mainloop"
    /\ timer_started = TRUE
    /\ rospy_shutdown = FALSE
    /\ shutdown_calls = 0
    /\ shutdown_raised = FALSE
    /\ exit_status = "running"
    /\ held = {}
    /\ hist = <<NoEvent, NoEvent, NoEvent>>
    /\ step = Step("init", "", << >>)
    /\ state_lock = "free"
    /\ ui_pc = "idle"
    /\ ui_ev = NoUiEvent
    /\ tick_pc = "idle"
    /\ seen = NothingSeen

NextTick == publish_cb

SpecTick == InitTick /\ [][NextTick]_vars

----------------------------------------------------------------------------
(* Properties *)

AnyFlag == \E i \in 0..3 : state[i]

\* C1: after any sequence of key events at most one of forward (state[0]) and
\* backward (state[2]) is true, and at most one of the left flag (state[1])
\* and the right flag (state[3]) is true.
C1_MutualExclusion ==
    /\ ~(state[0] /\ state[2])
    /\ ~(state[1] /\ state[3])

\* C1 witness: backward was pressed while forward was set, with the right
\* flag set by an earlier press of A.
C1_Witness_OppositePressed ==
    /\ hist[1].op = "keydown" /\ hist[1].key = LEFT
    /\ hist[2].op = "keydown" /\ hist[2].key = UP
    /\ hist[3].op = "keydown" /\ hist[3].key = DOWN
    /\ state[2] /\ ~state[0]
    /\ state[3] /\ ~state[1]

\* C2: a tick publishes only while some directional key is pressed and not
\* yet released.
C2_PublishOnlyWhileHeld ==
    (step.op = "tick" /\ step.msgs # << >>) => held # {}

\* C3 as stated, on its own example (the forward and backward keys):
\* whenever w or s is pressed and not yet released, control is true.
C3_HeldImpliesControl == (held \cap {UP, DOWN}) # {} => control

\* C3 amended: whenever at least one of the four flags is true, control is
\* true.
C3_FlagImpliesControl == AnyFlag => control

\* C3 witness: after a release a flag is still set and control is true.
C3_Witness_FlagKeepsControl ==
    /\ step.op = "keyup"
    /\ step.key = DOWN
    /\ state[3]
    /\ ~state[0] /\ ~state[1] /\ ~state[2]
    /\ control

\* C4: a second call of shutdown completes without raising.
C4_SecondShutdownDoesNotRaise == shutdown_calls >= 2 => ~shutdown_raised

\* C5: whenever shutdown has been triggered (quit key or interrupt signal at
\* any time after the handler is installed), the process eventually
\* terminates.
C5_ShutdownTerminates == (shutdown_calls > 0) ~> (pc = "done")

\* C6: keyup of a directional key that is not currently pressed leaves the
\* four flags and control unchanged.
C6_UnmatchedReleaseNoOp ==
    [][(step'.op = "keyup" /\ step'.key \in DirKeys /\ step'.key \notin held)
         => (state' = state /\ control' = control)]_vars

\* C7: a tick that runs when all four flags are false publishes no message
\* and changes no state.
C7_IdleTickNoOp ==
    [][(step'.op = "tick" /\ ~AnyFlag)
         => (step'.msgs = << >> /\ UNCHANGED <<keyvars, lifevars, shutdown_calls, held>>)]_vars

\* C7 witness: a tick ran with all flags false after keys had been pressed
\* and released.
C7_Witness_IdleTick ==
    /\ step.op = "tick"
    /\ ~AnyFlag
    /\ step.msgs = << >>
    /\ hist[3].op = "keyup"
    /\ hist[2].op = "keydown"

\* C8: with at least one flag true and the publisher initialized, a tick
\* emits exactly one command: speed +max if forward, else -max if backward,
\* else 0; steering +max if the left flag, else -max if the right flag,
\* else 0.
C8_TickCommand ==
    [][(step'.op = "tick" /\ AnyFlag /\ state_pub # "None")
         => step'.msgs =
              << [speed |-> IF state[0] THEN max_velocity
                            ELSE IF state[2] THEN 0 - max_velocity ELSE 0,
                  steering_angle |-> IF state[1] THEN max_steering_angle
                                     ELSE IF state[3] THEN 0 - max_steering_angle
                                     ELSE 0] >>]_vars

\* C8 witness: a tick with all four flags set published +max speed and +max
\* steering.
C8_Witness_Precedence ==
    /\ step.op = "tick"
    /\ state[0] /\ state[1] /\ state[2] /\ state[3]
    /\ max_velocity > 0
    /\ step.msgs = << [speed |-> max_velocity, steering_angle |-> max_steering_angle] >>

\* The events keydown(w) from all flags false, keydown(s), keyup(s) are the
\* three most recent directional-key events.
ForwardBackwardRelease ==
    hist = << [op |-> "keydown", key |-> UP, clear |-> TRUE],
              [op |-> "keydown", key |-> DOWN, clear |-> FALSE],
              [op |-> "keyup", key |-> DOWN, clear |-> FALSE] >>

\* C9: from all flags false, keydown(w), keydown(s), keyup(s) ends with
\* forward, backward and control false.
C9_ForwardNotRestored ==
    ForwardBackwardRelease => (~state[0] /\ ~state[2] /\ ~AnyFlag /\ ~control)

\* C9 witness: the sequence has just run and the forward key is still held.
C9_Witness_Sequence ==
    /\ ForwardBackwardRelease
    /\ step.op = "keyup"
    /\ UP \in held
    /\ ~state[0]

\* C10: keydown(w) yields forward, not backward; keydown(s) backward, not
\* forward; keydown(a) right flag, not left flag; keydown(d) left flag, not
\* right flag; each leaves the two flags of the other axis unchanged.
C10_KeydownTable ==
    [][(step'.op = "keydown") =>
         /\ step'.key = UP =>
              (state'[0] /\ ~state'[2] /\ state'[1] = state[1] /\ state'[3] = state[3])
         /\ step'.key = DOWN =>
              (~state'[0] /\ state'[2] /\ state'[1] = state[1] /\ state'[3] = state[3])
         /\ step'.key = LEFT =>
              (~state'[1] /\ state'[3] /\ state'[0] = state[0] /\ state'[2] = state[2])
         /\ step'.key = RIGHT =>
              (state'[1] /\ ~state'[3] /\ state'[0] = state[0] /\ state'[2] = state[2])]_vars

\* C10 witness: A was pressed while forward and the left flag were set.
C10_Witness_LeftKey ==
    /\ step.op = "keydown"
    /\ step.key = LEFT
    /\ hist[2].op = "keydown" /\ hist[2].key = RIGHT
    /\ state[0] /\ ~state[1] /\ state[3]

----------------------------------------------------------------------------
(* The startup order of main together with publish_cb on every input.       *)

InitStart == Init \/ InitTick

NextStart == main_params \/ main_publisher \/ main_timer \/ publish_cb

SpecStart == InitStart /\ [][NextStart]_vars

----------------------------------------------------------------------------
\* C11: keyup of a directional key sets that key's own flag to false (w:
\* state[0], a: state[1], s: state[2], d: state[3]) and leaves the other
\* three flags unchanged.
C11_KeyupClearsOwnFlag ==
    [][(step'.op = "keyup" /\ step'.key \in DirKeys) =>
         LET own == IF step'.key = UP THEN 0 ELSE IF step'.key = LEFT THEN 1
                    ELSE IF step'.key = DOWN THEN 2 ELSE 3
         IN  /\ ~state'[own]
             /\ \A i \in 0..3 : i # own => state'[i] = state[i]]_vars

\* C11 witness: w was released while the right flag was set; forward is
\* cleared and the right flag is kept.
C11_Witness_ReleaseForward ==
    /\ step.op = "keyup" /\ step.key = UP
    /\ hist[1].op = "keydown" /\ hist[1].key = LEFT
    /\ hist[2].op = "keydown" /\ hist[2].key = UP
    /\ hist[3].op = "keyup" /\ hist[3].key = UP
    /\ ~state[0] /\ state[3]

C14_LockIsReleased ==
    (state_lock # "free") ~> (state_lock = "free" \/ pc = "done")

\* C14 witness: shutdown() has raised on the quit-key path while keydown
\* holds the lock.
C14_Witness_ShutdownFailedUnderLock ==
    /\ ui_pc = "unwind"
    /\ state_lock = "ui"
    /\ shutdown_raised
    /\ tick_pc = "idle"

\* C15: a tick that runs while state_pub is None publishes nothing and
\* changes no state, even with control true; and main starts the timer only
\* after state_pub is assigned, so the program never runs a tick without it.
C15_AbsentPublisherSkipped ==
    [][/\ (step'.op = "tick" /\ state_pub = "None") =>
             (step'.msgs = << >> /\ UNCHANGED <<keyvars, lifevars, shutdown_calls, held>>)
       /\ (timer_started' /\ ~timer_started) => state_pub # "None"
       /\ (timer_started' /\ pc' # "mainloop") => state_pub' # "None"]_vars

\* C15 witness: a tick ran with control true and state_pub None and
\* published nothing.
C15_Witness_TickWithoutPublisher ==
    /\ step.op = "tick"
    /\ state_pub = "None"
    /\ control
    /\ step.msgs = << >>

\* C16: a tick leaves the flags, control and the maxima unchanged, and what
\* it publishes is computed from the flags at that tick only.
C16_TickReadsOnly ==
    [][(step'.op = "tick") =>
         /\ UNCHANGED <<state, control, max_velocity, max_steering_angle>>
         /\ step'.msgs =
              IF control /\ state_pub # "None"
                 THEN << [speed |-> IF state[0] THEN max_velocity
                                    ELSE IF state[2] THEN 0 - max_velocity ELSE 0,
                          steering_angle |-> IF state[1] THEN max_steering_angle
                                             ELSE IF state[3] THEN 0 - max_steering_angle
                                             ELSE 0] >>
                 ELSE << >>]_vars

\* C16 witness: after w was pressed and released, a tick publishes speed 0
\* with the steering of the flag that is still set.
C16_Witness_FreshCommand ==
    /\ step.op = "tick"
    /\ hist[2].op = "keydown" /\ hist[2].key = UP
    /\ hist[3].op = "keyup" /\ hist[3].key = UP
    /\ state[3]
    /\ max_velocity # 0
    /\ step.msgs = << [speed |-> 0, steering_angle |-> 0 - max_steering_angle] >>

\* C17: with nonzero maxima, every command a tick publishes has a nonzero
\* speed or a nonzero steering angle.
C17_NoStopCommand ==
    (step.op = "tick" /\ step.msgs # << >> /\ max_velocity # 0 /\ max_steering_angle # 0)
        => (step.msgs[1].speed # 0 \/ step.msgs[1].steering_angle # 0)

\* C17 witness: with nonzero maxima a tick published a command after a key
\* had been released.
C17_Witness_Published ==
    /\ step.op = "tick"
    /\ step.msgs # << >>
    /\ max_velocity # 0 /\ max_steering_angle # 0
    /\ hist[3].op = "keyup"
    /\ step.msgs[1].speed = 0

\* C18: keydown(k) right after keydown(k), and keyup(k) right after
\* keyup(k), changes neither the flags nor control.
C18_RepeatIsIdempotent ==
    [][(/\ step'.op \in {"keydown", "keyup"}
        /\ step'.key \in DirKeys
        /\ step.op = step'.op
        /\ step.key = step'.key)
         => (state' = state /\ control' = control)]_vars

\* C18 witness: w was pressed twice in a row.
C18_Witness_Repeat ==
    /\ step.op = "keydown" /\ step.key = UP
    /\ hist[2].op = "keydown" /\ hist[2].key = UP
    /\ hist[3].op = "keydown" /\ hist[3].key = UP
    /\ state[0] /\ control

\* C19: keydown and keyup of q, and of a key other than w, a, s, d, q, leave
\* the four flags and control unchanged.
C19_OtherKeysKeepFlags ==
    [][(step'.op \in {"keydown", "keyup"} /\ step'.key \notin DirKeys)
         => (state' = state /\ control' = control)]_vars

\* C19 witness: q was pressed with forward set; shutdown ran and forward is
\* still set.
C19_Witness_QuitKeepsFlags ==
    /\ step.op = "keydown" /\ step.key = QUIT
    /\ root = "destroyed"
    /\ rospy_shutdown
    /\ state[0] /\ control

====
